---------------------------- MODULE Spec2Model ----------------------------
(***************************************************************************)
(* A model of praxis: an App struct (src/main.rs) driven by the windowing  *)
(* system's callbacks resumed and window_event, with its helpers update    *)
(* and add_cube, the Controller (src/controller.rs) and the Timer          *)
(* (src/timer.rs).                                                         *)
(*                                                                         *)
(* Numbers.  Positions, the velocity and matrix entries are f32 in the     *)
(* program.  The model computes with them exactly: a number is a pair      *)
(* <<a, b>> standing for (a + b*sqrt(2)) / 16, which is closed under the   *)
(* sums, products and the normalisation update performs.  Rounding of f32  *)
(* arithmetic is not modelled.  Time is counted in milliseconds.           *)
(***************************************************************************)
EXTENDS Integers, Sequences, FiniteSets, TLC

VARIABLES phase, app, next_id, clock, ev, consumed, frame, failed, handled,
          touch, presses, held, redraw_requested, clock_buffer

vars == <<phase, app, next_id, clock, ev, consumed, frame, failed, handled,
          touch, presses, held, redraw_requested, clock_buffer>>

---------------------------------------------------------------------------
(* Bounds of the model. *)

\* window events dispatched in one run
MaxEvents == 4
\* cube instances that may exist
MaxCubes == 2
\* calls of ClockBuffer::update in one run
MaxUpdates == 3
\* models in an OBJ file
MaxModels == 2

---------------------------------------------------------------------------
(* Exact arithmetic on numbers (a + b*sqrt(2)) / 16. *)

Num(a, b) == <<a, b>>
NumZero == Num(0, 0)
NumOne == Num(16, 0)
NumAdd(p, q) == Num(p[1] + q[1], p[2] + q[2])
NumNeg(p) == Num(0 - p[1], 0 - p[2])
NumSub(p, q) == NumAdd(p, NumNeg(q))
\* products with 0 and with 1 are taken directly
NumMul(p, q) ==
    IF p = NumZero \/ q = NumZero THEN NumZero
    ELSE IF p = NumOne THEN q
    ELSE IF q = NumOne THEN p
    ELSE Num((p[1] * q[1] + 2 * p[2] * q[2]) \div 16,
             (p[1] * q[2] + p[2] * q[1]) \div 16)

\* p / q, for q # 0: p * conj(q) / norm(q)
NumDiv(p, q) ==
    LET n == q[1] * q[1] - 2 * q[2] * q[2]
        s == IF n < 0 THEN -1 ELSE 1
    IN  Num((s * 16 * (p[1] * q[1] - 2 * p[2] * q[2])) \div (s * n),
            (s * 16 * (p[2] * q[1] - p[1] * q[2])) \div (s * n))

IntSgn(n) == IF n > 0 THEN 1 ELSE IF n < 0 THEN -1 ELSE 0

\* the sign of a + b*sqrt(2)
NumSgn(p) ==
    LET a == p[1]
        b == p[2]
    IN  IF IntSgn(a) = IntSgn(b) THEN IntSgn(a)
        ELSE IF a = 0 THEN IntSgn(b)
        ELSE IF b = 0 THEN IntSgn(a)
        ELSE IF a * a > 2 * b * b THEN IntSgn(a) ELSE IntSgn(b)

\* the square root, on the values a squared magnitude of a direction takes
NumSqrt(p) ==
    CASE p = Num(0, 0) -> Num(0, 0)
      [] p = Num(16, 0) -> Num(16, 0)
      [] p = Num(32, 0) -> Num(0, 16)

(* cgmath::Vector3<f32> *)
Vec3(x, y, z) == <<x, y, z>>
VecAdd(v, w) == Vec3(NumAdd(v[1], w[1]), NumAdd(v[2], w[2]), NumAdd(v[3], w[3]))
VecSub(v, w) == Vec3(NumSub(v[1], w[1]), NumSub(v[2], w[2]), NumSub(v[3], w[3]))
VecScale(v, s) == Vec3(NumMul(v[1], s), NumMul(v[2], s), NumMul(v[3], s))
VecZero == Vec3(NumZero, NumZero, NumZero)
magnitude2(v) ==
    NumAdd(NumMul(v[1], v[1]), NumAdd(NumMul(v[2], v[2]), NumMul(v[3], v[3])))
magnitude(v) == NumSqrt(magnitude2(v))
normalize(v) ==
    LET m == magnitude(v)
    IN  Vec3(NumDiv(v[1], m), NumDiv(v[2], m), NumDiv(v[3], m))

---------------------------------------------------------------------------
(* Window events (winit::event::WindowEvent), as far as the handlers look  *)
(* at them.                                                                *)

DirectionCodes ==
    {"KeyW", "ArrowUp", "KeyA", "ArrowLeft", "KeyS", "ArrowDown", "KeyD",
     "ArrowRight"}

\* PhysicalKey::Code(_) for these, and PhysicalKey::Unidentified(_)
PhysicalKeys == DirectionCodes \cup {"Space", "Escape", "KeyQ", "Unidentified"}

\* Key::Named(Escape), Key::Named(Space), and any other logical key
LogicalKeys == {"Escape", "Space", "Character"}

KeyboardInput(state, physical, logical, repeat) ==
    [kind |-> "KeyboardInput", state |-> state, physical_key |-> physical,
     logical_key |-> logical, repeat |-> repeat]

OtherEvent(kind) ==
    [kind |-> kind, state |-> "-", physical_key |-> "-", logical_key |-> "-",
     repeat |-> FALSE]

\* every keyboard event: a repeated key event is a press
KeyboardEvents ==
    {e \in {KeyboardInput(s, p, l, r) :
                s \in {"Pressed", "Released"}, p \in PhysicalKeys,
                l \in LogicalKeys, r \in BOOLEAN} :
        e.repeat => e.state = "Pressed"}

AllEvents ==
    KeyboardEvents
    \cup {OtherEvent("CloseRequested"), OtherEvent("RedrawRequested"),
          OtherEvent("Resized")}

\* the events the event loop delivers in the runs explored: the direction
\* keys under their usual logical key, a W key remapped to Space or to
\* Escape, Space and Escape (pressed, repeated, released), keys that are
\* not bound, and the window's own events
Events ==
    {KeyboardInput(s, p, "Character", FALSE) :
        s \in {"Pressed", "Released"},
        p \in {"KeyW", "ArrowUp", "KeyS", "KeyA", "KeyD"}}
    \cup {KeyboardInput("Pressed", "KeyW", l, FALSE) : l \in {"Space", "Escape"}}
    \cup {KeyboardInput("Pressed", "Space", "Space", r) : r \in BOOLEAN}
    \cup {KeyboardInput("Released", "Space", "Space", FALSE),
          KeyboardInput("Pressed", "Escape", "Escape", FALSE),
          KeyboardInput("Released", "Escape", "Escape", FALSE),
          KeyboardInput("Pressed", "KeyQ", "Character", FALSE),
          KeyboardInput("Pressed", "Unidentified", "Space", FALSE)}
    \cup {OtherEvent("CloseRequested"), OtherEvent("RedrawRequested"),
          OtherEvent("Resized")}

NoEvent == OtherEvent("-")

---------------------------------------------------------------------------
(* Controller (src/controller.rs) *)

ControllerDefault ==
    [velocity |-> NumZero, is_up_pressed |-> FALSE, is_down_pressed |-> FALSE,
     is_left_pressed |-> FALSE, is_right_pressed |-> FALSE]

Flags == {"is_up_pressed", "is_down_pressed", "is_left_pressed", "is_right_pressed"}

\* the flag a key code is bound to, "" for a key that has none
FlagOf(keycode) ==
    CASE keycode \in {"KeyW", "ArrowUp"} -> "is_up_pressed"
      [] keycode \in {"KeyA", "ArrowLeft"} -> "is_left_pressed"
      [] keycode \in {"KeyS", "ArrowDown"} -> "is_down_pressed"
      [] keycode \in {"KeyD", "ArrowRight"} -> "is_right_pressed"
      [] OTHER -> ""

\* a faulty variant: the arrow keys are not bound
process_events_wasd(c, e) ==
    IF e.kind = "KeyboardInput"
          /\ e.physical_key \in {"KeyW", "KeyA", "KeyS", "KeyD"}
    THEN [controller |->
              [c EXCEPT ![FlagOf(e.physical_key)] = (e.state = "Pressed")],
          handled |-> TRUE]
    ELSE [controller |-> c, handled |-> FALSE]

\* a faulty variant: a release leaves the flag set
process_events_sticky(c, e) ==
    IF e.kind = "KeyboardInput" /\ e.physical_key # "Unidentified"
          /\ FlagOf(e.physical_key) # ""
    THEN [controller |->
              [c EXCEPT ![FlagOf(e.physical_key)] = @ \/ e.state = "Pressed"],
          handled |-> TRUE]
    ELSE [controller |-> c, handled |-> FALSE]

\* Controller::process_events: the controller afterwards and the value returned
process_events(c, e) ==
    IF e.kind = "KeyboardInput" /\ e.physical_key # "Unidentified"
    THEN LET is_pressed == (e.state = "Pressed")
             keycode == e.physical_key
         IN  CASE keycode \in {"KeyW", "ArrowUp"} ->
                    [controller |-> [c EXCEPT !.is_up_pressed = is_pressed],
                     handled |-> TRUE]
               [] keycode \in {"KeyA", "ArrowLeft"} ->
                    [controller |-> [c EXCEPT !.is_left_pressed = is_pressed],
                     handled |-> TRUE]
               [] keycode \in {"KeyS", "ArrowDown"} ->
                    [controller |-> [c EXCEPT !.is_down_pressed = is_pressed],
                     handled |-> TRUE]
               [] keycode \in {"KeyD", "ArrowRight"} ->
                    [controller |-> [c EXCEPT !.is_right_pressed = is_pressed],
                     handled |-> TRUE]
               [] OTHER -> [controller |-> c, handled |-> FALSE]
    ELSE [controller |-> c, handled |-> FALSE]

---------------------------------------------------------------------------
(* Instance and InstanceRaw (src/main.rs) *)

\* cgmath::Quaternion<f32> as <<s, x, y, z>>
QuaternionZero == <<NumZero, NumZero, NumZero, NumZero>>

Instance(position, rotation) == [position |-> position, rotation |-> rotation]

\* a 4x4 matrix is the tuple of its four columns, as in cgmath
Mat4Mul(m, n) ==
    [j \in 1..4 |->
        [i \in 1..4 |->
            NumAdd(NumAdd(NumMul(m[1][i], n[j][1]), NumMul(m[2][i], n[j][2])),
                   NumAdd(NumMul(m[3][i], n[j][3]), NumMul(m[4][i], n[j][4])))]]

\* cgmath::Matrix4::from_translation
from_translation(v) ==
    << <<NumOne, NumZero, NumZero, NumZero>>,
       <<NumZero, NumOne, NumZero, NumZero>>,
       <<NumZero, NumZero, NumOne, NumZero>>,
       <<v[1], v[2], v[3], NumOne>> >>

\* cgmath::Matrix4::from(Quaternion)
from_quaternion(q) ==
    LET s == q[1]
        x2 == NumAdd(q[2], q[2])
        y2 == NumAdd(q[3], q[3])
        z2 == NumAdd(q[4], q[4])
        xx2 == NumMul(x2, q[2])
        xy2 == NumMul(x2, q[3])
        xz2 == NumMul(x2, q[4])
        yy2 == NumMul(y2, q[3])
        yz2 == NumMul(y2, q[4])
        zz2 == NumMul(z2, q[4])
        sy2 == NumMul(y2, s)
        sz2 == NumMul(z2, s)
        sx2 == NumMul(x2, s)
    IN  << <<NumSub(NumSub(NumOne, yy2), zz2), NumAdd(xy2, sz2),
             NumSub(xz2, sy2), NumZero>>,
           <<NumSub(xy2, sz2), NumSub(NumSub(NumOne, xx2), zz2),
             NumAdd(yz2, sx2), NumZero>>,
           <<NumAdd(xz2, sy2), NumSub(yz2, sx2),
             NumSub(NumSub(NumOne, xx2), yy2), NumZero>>,
           <<NumZero, NumZero, NumZero, NumOne>> >>

\* Instance::to_raw: the model matrix of an instance
to_raw(inst) ==
    [model |-> Mat4Mul(from_translation(inst.position),
                       from_quaternion(inst.rotation))]

\* self.cube_instances.iter().map(Instance::to_raw).collect()
instance_data(instances) == [i \in 1..Len(instances) |-> to_raw(instances[i])]

---------------------------------------------------------------------------
(* App (src/main.rs).  An Option field is <<>> for None and <<v>> for      *)
(* Some(v).  A GPU or window resource is known by the number it was        *)
(* created under; a buffer also by its contents.                           *)

None == <<>>
Some(v) == <<v>>
IsSome(o) == o # <<>>
unwrapped(o) == o[1]

Buffer(id, data) == [id |-> id, data |-> data]

WIDTH == 1024
HEIGHT == 768

OptionFields ==
    {"window", "instance", "surface", "device", "queue", "vertex_buffer",
     "index_buffer", "timer", "brush", "text_section", "camera",
     "camera_buffer", "camera_bind_group", "background_render_pipeline",
     "background_texture_bind_group", "background_vertex_buffer",
     "background_index_buffer", "cube_pipeline", "cube_bind_group",
     "cube_vertex_buf", "cube_index_buf", "cube_instance_buffer",
     "cube_model", "cube_position"}

\* the Option fields update, add_cube and the RedrawRequested arm of
\* window_event unwrap
Unwraps ==
    {"surface", "device", "queue", "window", "background_render_pipeline",
     "background_texture_bind_group", "camera_bind_group",
     "background_vertex_buffer", "background_index_buffer", "cube_pipeline",
     "cube_instance_buffer", "cube_model", "brush"}

\* App::default()
AppDefault ==
    [f \in OptionFields |-> None]
    @@ [cube_instances |-> <<>>, controller |-> ControllerDefault]

\* the Camera built in resumed
CameraInit ==
    [eye |-> <<"8.4", "25.0", "-8.4">>, target |-> <<"0.0", "0.0", "0.0">>,
     up |-> <<"0.0", "1.0", "0.0">>, aspect |-> <<WIDTH, HEIGHT>>,
     fovy |-> "90.0", znear |-> "0.1", zfar |-> "100.0"]

\* controller.velocity as set in resumed: 0.5
Velocity == Num(8, 0)

\* cube_position as set in resumed: (-1, -1, -1)
CubePositionInit == Vec3(NumNeg(NumOne), NumNeg(NumOne), NumNeg(NumOne))

\* TimerUniform { t: 0.2 }, in milliseconds
TimerInitT == 200

\* Timer::new, with the clock reading it starts from
TimerNew(id, now) ==
    [start |-> now, elapsed |-> 0, last |-> 0, acc |-> 0,
     timer_uniform |-> [t |-> TimerInitT],
     timer_buffer |-> Buffer(id, TimerInitT)]

\* a faulty variant: the cube pipeline is not stored
InitStepsNoCubePipeline ==
    <<"create_window", "instance", "create_surface", "request_adapter",
      "request_device", "camera", "camera_buffer", "camera_bind_group",
      "velocity", "font", "text_section", "timer", "vertex_buffer",
      "index_buffer", "background_render_pipeline",
      "background_vertex_buffer", "background_index_buffer",
      "background_texture", "load_cube", "cube_position",
      "cube_instances", "cube_instance_buffer", "request_redraw">>

\* the statements of resumed that assign state or may fail, in source order
InitSteps ==
    <<"create_window", "instance", "create_surface", "request_adapter",
      "request_device", "camera", "camera_buffer", "camera_bind_group",
      "velocity", "font", "text_section", "timer", "vertex_buffer",
      "index_buffer", "background_render_pipeline",
      "background_vertex_buffer", "background_index_buffer",
      "background_texture", "cube_pipeline", "load_cube", "cube_position",
      "cube_instances", "cube_instance_buffer", "request_redraw">>

\* the calls of resumed whose result is unwrapped
InitFallible ==
    {"create_window", "create_surface", "request_adapter", "request_device",
     "font", "background_texture", "load_cube"}

\* the state after one statement of resumed has succeeded; id numbers the
\* resource it creates
resumed_step(a, step, id, now) ==
    CASE step = "create_window" -> [a EXCEPT !.window = Some(id)]
      [] step = "instance" -> [a EXCEPT !.instance = Some(id)]
      [] step = "create_surface" -> [a EXCEPT !.surface = Some(id)]
      [] step = "request_adapter" -> a
      [] step = "request_device" ->
            [a EXCEPT !.device = Some(id), !.queue = Some(id)]
      [] step = "camera" -> [a EXCEPT !.camera = Some(CameraInit)]
      [] step = "camera_buffer" ->
            [a EXCEPT !.camera_buffer =
                Some(Buffer(id, [view_proj_of |-> unwrapped(a.camera)]))]
      [] step = "camera_bind_group" -> [a EXCEPT !.camera_bind_group = Some(id)]
      [] step = "velocity" -> [a EXCEPT !.controller.velocity = Velocity]
      [] step = "font" -> [a EXCEPT !.brush = Some(id)]
      [] step = "text_section" -> [a EXCEPT !.text_section = Some(id)]
      [] step = "timer" -> [a EXCEPT !.timer = Some(TimerNew(id, now))]
      [] step = "vertex_buffer" -> [a EXCEPT !.vertex_buffer = Some(id)]
      [] step = "index_buffer" -> [a EXCEPT !.index_buffer = Some(id)]
      [] step = "background_render_pipeline" ->
            [a EXCEPT !.background_render_pipeline = Some(id)]
      [] step = "background_vertex_buffer" ->
            [a EXCEPT !.background_vertex_buffer = Some(id)]
      [] step = "background_index_buffer" ->
            [a EXCEPT !.background_index_buffer = Some(id)]
      [] step = "background_texture" ->
            [a EXCEPT !.background_texture_bind_group = Some(id)]
      [] step = "cube_pipeline" -> [a EXCEPT !.cube_pipeline = Some(id)]
      [] step = "load_cube" -> [a EXCEPT !.cube_model = Some(id)]
      [] step = "cube_position" ->
            [a EXCEPT !.cube_position = Some(CubePositionInit)]
      [] step = "cube_instances" ->
            [a EXCEPT !.cube_instances =
                <<Instance(unwrapped(a.cube_position), QuaternionZero)>>]
      [] step = "cube_instance_buffer" ->
            [a EXCEPT !.cube_instance_buffer =
                Some(Buffer(id, instance_data(a.cube_instances)))]
      [] step = "request_redraw" -> a

\* the state after the first n statements of resumed
RECURSIVE resumed_prefix(_, _, _)
resumed_prefix(a, n, now) ==
    IF n = 0 THEN a
    ELSE resumed_step(resumed_prefix(a, n - 1, now), InitSteps[n], n, now)

StepIndex(step) == CHOOSE n \in 1..Len(InitSteps) : InitSteps[n] = step

\* the outcome of an unwrap of a result: the handler goes on, or the process
\* panics
unwrap_recovering(ok) == "running"

unwrap(ok) == IF ok THEN "running" ELSE "aborted"

\* App::resumed, where fail names the call that fails ("none": all succeed):
\* the statements before the failing call have taken effect
resumed(a, fail, now) ==
    IF fail = "none" THEN resumed_prefix(a, Len(InitSteps), now)
    ELSE resumed_prefix(a, StepIndex(fail) - 1, now)

---------------------------------------------------------------------------
(* update and add_cube (src/main.rs) *)

\* wgpu::Queue::write_buffer at offset 0 is valid when len items of data fit
write_fits(buf, len) == len <= Len(buf.data)

\* the buffer after a valid write_buffer at offset 0.  The write takes
\* effect before the commands of the next submission
write_buffer(buf, data) ==
    [buf EXCEPT !.data =
        [i \in 1..Len(buf.data) |-> IF i <= Len(data) THEN data[i] ELSE @[i]]]

Bit(b) == IF b THEN NumOne ELSE NumZero

\* the displacement update computes from the controller
move_vector(c) ==
    LET x == NumSub(Bit(c.is_right_pressed), Bit(c.is_left_pressed))
        y == NumZero
        z == NumSub(Bit(c.is_up_pressed), Bit(c.is_down_pressed))
        v == Vec3(x, y, z)
        n == IF magnitude(v) # NumZero THEN normalize(v) ELSE v
    IN  VecScale(n, c.velocity)

\* a faulty variant: only the first instance moves
move_first_instance(instances, v) ==
    [i \in 1..Len(instances) |->
        IF i = 1 THEN [instances[i] EXCEPT !.position = VecAdd(@, v)]
        ELSE instances[i]]

\* for c in self.cube_instances.iter_mut() { c.position += move_vector }
move_instances(instances, v) ==
    [i \in 1..Len(instances) |->
        [instances[i] EXCEPT !.position = VecAdd(@, v)]]

\* f64 as f32 on a non-negative whole number: 24 significant bits are kept
RECURSIVE f32_at(_, _)
f32_at(x, unit) ==
    IF x \div unit < 16777216
    THEN LET q == x \div unit
             r == x % unit
         IN  IF 2 * r > unit \/ (2 * r = unit /\ q % 2 = 1)
             THEN (q + 1) * unit ELSE q * unit
    ELSE f32_at(x, 2 * unit)

as_f32(x) == f32_at(x, 1)

\* a faulty variant: timer.last is not brought up to date
update_timer_stale(timer, now) ==
    LET elapsed == now - timer.start
        t == as_f32(elapsed)
    IN  [timer EXCEPT !.elapsed = elapsed,
                      !.acc = @ + (elapsed - timer.last),
                      !.timer_uniform.t = t,
                      !.timer_buffer.data = t]

\* the timer part of update; now is the clock's reading
update_timer(timer, now) ==
    LET elapsed == now - timer.start
        t == as_f32(elapsed)
    IN  [timer EXCEPT !.elapsed = elapsed,
                      !.acc = @ + (elapsed - timer.last),
                      !.last = elapsed,
                      !.timer_uniform.t = t,
                      !.timer_buffer.data = t]

\* what update uploads: the raw matrices of the instances
uploaded(instances) == instance_data(instances)

\* whether the write_buffer of update is valid
update_valid(a) ==
    write_fits(unwrapped(a.cube_instance_buffer), Len(a.cube_instances))

\* a faulty variant: the moved instances are not uploaded
update_no_upload(a, now) ==
    [a EXCEPT
        !.cube_instances =
            move_instances(a.cube_instances, move_vector(a.controller)),
        !.timer = IF IsSome(@) THEN Some(update_timer(unwrapped(@), now))
                  ELSE @]

\* a faulty variant: cube_position follows the first instance
update_position_follow(a, now) ==
    LET moved == move_instances(a.cube_instances, move_vector(a.controller))
    IN  [a EXCEPT
            !.cube_instances = moved,
            !.cube_instance_buffer =
                Some(write_buffer(unwrapped(@), uploaded(moved))),
            !.timer = IF IsSome(@) THEN Some(update_timer(unwrapped(@), now))
                      ELSE @,
            !.cube_position = Some(moved[1].position)]

\* a faulty variant: the camera is made to look at the first instance
update_camera_follow(a, now) ==
    LET moved == move_instances(a.cube_instances, move_vector(a.controller))
    IN  [a EXCEPT
            !.cube_instances = moved,
            !.cube_instance_buffer =
                Some(write_buffer(unwrapped(@), uploaded(moved))),
            !.timer = IF IsSome(@) THEN Some(update_timer(unwrapped(@), now))
                      ELSE @,
            !.camera = Some([unwrapped(@) EXCEPT !.target = <<"-1.0", "-1.0", "-1.0">>]),
            !.camera_buffer =
                Some([unwrapped(@) EXCEPT !.data =
                    [view_proj_of |->
                        [unwrapped(a.camera) EXCEPT
                            !.target = <<"-1.0", "-1.0", "-1.0">>]]])]

\* App::update
update(a, now) ==
    LET moved == move_instances(a.cube_instances, move_vector(a.controller))
    IN  [a EXCEPT
            !.cube_instances = moved,
            !.cube_instance_buffer =
                Some(write_buffer(unwrapped(@), uploaded(moved))),
            !.timer = IF IsSome(@) THEN Some(update_timer(unwrapped(@), now))
                      ELSE @]

\* a faulty variant: the new instance is put in front of the others
add_cube_front(a, position, id) ==
    LET pushed == <<Instance(position, QuaternionZero)>> \o a.cube_instances
        data == instance_data(pushed)
    IN  [a EXCEPT
            !.cube_instances = pushed,
            !.cube_instance_buffer = Some(write_buffer(Buffer(id, data), data))]

\* a faulty variant: the data is written into the buffer there is
add_cube_in_place(a, position, id) ==
    LET pushed == Append(a.cube_instances, Instance(position, QuaternionZero))
    IN  [a EXCEPT
            !.cube_instances = pushed,
            !.cube_instance_buffer =
                Some(write_buffer(unwrapped(@), instance_data(pushed)))]

\* App::add_cube, with the three random coordinates and the number of the
\* buffer it creates
add_cube(a, position, id) ==
    LET pushed == Append(a.cube_instances, Instance(position, QuaternionZero))
        data == instance_data(pushed)
    IN  [a EXCEPT
            !.cube_instances = pushed,
            !.cube_instance_buffer = Some(write_buffer(Buffer(id, data), data))]

---------------------------------------------------------------------------
(* The render pass of a RedrawRequested (src/main.rs, src/cube.rs).  A     *)
(* command is <<operation, argument, number>>.                             *)

\* a faulty variant: one instance is drawn, however many there are
draw_mesh_single(instances) ==
    << <<"set_vertex_buffer", "mesh", 0>>,
       <<"set_index_buffer", "mesh", 0>>,
       <<"set_bind_group", "material", 0>>,
       <<"set_bind_group", "camera", 1>>,
       <<"draw_indexed", "mesh", 1>> >>

\* DrawModel::draw_mesh_instanced; instances is the end of the range 0..n
draw_mesh_instanced(instances) ==
    << <<"set_vertex_buffer", "mesh", 0>>,
       <<"set_index_buffer", "mesh", 0>>,
       <<"set_bind_group", "material", 0>>,
       <<"set_bind_group", "camera", 1>>,
       <<"draw_indexed", "mesh", instances>> >>

\* the commands of one frame, in the order the handler issues them
render(a) ==
    << <<"begin_render_pass", "clear", 0>>,
       <<"set_pipeline", "background", 0>>,
       <<"set_bind_group", "background_texture", 0>>,
       <<"set_bind_group", "camera", 1>>,
       <<"set_vertex_buffer", "background", 0>>,
       <<"set_index_buffer", "background", 0>>,
       <<"set_pipeline", "cube", 0>>,
       <<"set_vertex_buffer", "cube_instance", 1>>,
       <<"set_bind_group", "material", 0>> >>
    \o draw_mesh_instanced(Len(a.cube_instances))
    \o << <<"brush.draw", "text", 0>>,
          <<"submit", "encoder", 0>>,
          <<"present", "output", 0>>,
          <<"request_redraw", "window", 0>> >>

\* the pipeline bound when command i of a frame runs, "" when none is
RECURSIVE pipeline_at(_, _)
pipeline_at(cmds, i) ==
    IF i = 0 THEN ""
    ELSE IF cmds[i][1] = "set_pipeline" THEN cmds[i][2]
    ELSE pipeline_at(cmds, i - 1)

draw_step(pipeline) ==
    CASE pipeline = "background" -> "draw background"
      [] pipeline = "cube" -> "draw cube"
      [] OTHER -> "draw"

\* the visible steps of a frame: the clear, each draw with the pipeline it
\* runs under, the text, the present
RECURSIVE steps_upto(_, _)
steps_upto(cmds, i) ==
    IF i = 0 THEN <<>>
    ELSE LET before == steps_upto(cmds, i - 1)
             op == cmds[i][1]
         IN  CASE op = "begin_render_pass" -> Append(before, cmds[i][2])
               [] op = "draw_indexed" ->
                    Append(before, draw_step(pipeline_at(cmds, i)))
               [] op = "brush.draw" -> Append(before, "draw text")
               [] op = "present" -> Append(before, "present")
               [] OTHER -> before

steps(cmds) == steps_upto(cmds, Len(cmds))

---------------------------------------------------------------------------
(* The event loop (winit) and the handlers of App. *)

\* milliseconds that may pass between two updates
Deltas == {0, 16}

\* a faulty variant: the random number may be 1
random_coordinate_inclusive(k) == as_f32(10 * (k + 1))

\* rand::random::<f32>() * 10.0, where the random f32 is k / 2^24 for a k in
\* 0 .. 2^24 - 1: the f32 product, counted in units of 2^-24
random_coordinate(k) == as_f32(10 * k)

\* whether the coordinate drawn with k is a whole number of sixteenths
in_sixteenths(k) == random_coordinate(k) % 1048576 = 0

\* the coordinate drawn with k as a number of the model
coordinate(k) == Num(random_coordinate(k) \div 1048576, 0)

\* let position = (x, y, z).into(), for the three draws
random_position(draws) ==
    Vec3(coordinate(draws[1]), coordinate(draws[2]), coordinate(draws[3]))

\* draws of add_cube in the event loop: 0 three times, and 16672358,
\* 8388608 and 2097152
SpawnDraws == {<<0, 0, 0>>, <<16672358, 8388608, 2097152>>}

\* positions add_cube may draw, each coordinate a value of
\* rand::random::<f32>() * 10.0: (0, 0, 0) and (9.9375, 5, 1.25)
SpawnPositions == {random_position(draws) : draws \in SpawnDraws}

\* a faulty variant: the state of the Escape event is not looked at
is_exit_any_state(e) ==
    \/ e.kind = "CloseRequested"
    \/ /\ e.kind = "KeyboardInput"
       /\ e.logical_key = "Escape"

\* the first match arm of window_event: CloseRequested, or Escape pressed
is_exit(e) ==
    \/ e.kind = "CloseRequested"
    \/ /\ e.kind = "KeyboardInput"
       /\ e.state = "Pressed"
       /\ e.logical_key = "Escape"

\* a faulty variant: the state of the Space event is not looked at
is_spawn_any_state(e) ==
    /\ e.kind = "KeyboardInput"
    /\ e.logical_key = "Space"

\* the second match arm: Space pressed
is_spawn(e) ==
    /\ e.kind = "KeyboardInput"
    /\ e.state = "Pressed"
    /\ e.logical_key = "Space"

\* a faulty variant: the match comes first, the controller last
branch_match_first(c, e) ==
    IF is_exit(e) THEN "exit"
    ELSE IF is_spawn(e) THEN "add_cube"
    ELSE IF e.kind = "RedrawRequested" THEN "redraw"
    ELSE IF process_events(c, e).handled THEN "controller"
    ELSE "none"

\* the part of window_event that handles event e with controller c
branch(c, e) ==
    IF process_events(c, e).handled THEN "controller"
    ELSE IF is_exit(e) THEN "exit"
    ELSE IF is_spawn(e) THEN "add_cube"
    ELSE IF e.kind = "RedrawRequested" THEN "redraw"
    ELSE "none"

\* what has happened to a flag since the last redraw, after event e on one
\* of its keys: "pressed" (the last event was a press), "tapped" (a press,
\* and the last event was a release), "released" (a release, no press
\* before it), from "none" (or "was tapped": tapped before the last redraw)
touched(was, e) ==
    IF e.state = "Pressed" THEN "pressed"
    ELSE IF was \in {"pressed", "tapped"} THEN "tapped"
    ELSE "released"

\* the Space presses window_event has been called with, and those among
\* them whose physical key is a direction key, after event e
pressed(was, e) ==
    IF e.kind = "KeyboardInput" /\ e.state = "Pressed" /\ e.logical_key = "Space"
    THEN [space |-> was.space + 1,
          direction |-> was.direction
                          + (IF e.physical_key \in DirectionCodes THEN 1 ELSE 0)]
    ELSE was

\* the direction keys that are down, after event e
hold(was, e) ==
    IF e.kind = "KeyboardInput" /\ e.physical_key \in DirectionCodes
    THEN IF e.state = "Pressed" THEN was \cup {e.physical_key}
         ELSE was \ {e.physical_key}
    ELSE was

\* a faulty variant: the request is lost
request_redraw_lost(cmds) == FALSE

\* Window::request_redraw: whether the commands of a handler leave a redraw
\* requested
request_redraw(cmds) ==
    \E i \in 1..Len(cmds) : cmds[i][1] = "request_redraw"

Init ==
    /\ phase = "created"
    /\ app = AppDefault
    /\ next_id = 1
    /\ clock = 0
    /\ ev = NoEvent
    /\ consumed = FALSE
    /\ frame = <<>>
    /\ failed = "none"
    /\ handled = 0
    /\ touch = [f \in Flags |-> "none"]
    /\ presses = [space |-> 0, direction |-> 0]
    /\ held = {}
    /\ redraw_requested = FALSE
    /\ clock_buffer = None

\* the event loop delivers Resumed first, once; any of its fallible calls
\* may fail; the last statement of resumed requests the first redraw
Resumed ==
    /\ phase = "created"
    /\ \E fail \in InitFallible \cup {"none"} :
          /\ app' = resumed(app, fail, clock)
          /\ phase' = unwrap(fail = "none")
          /\ failed' = fail
          /\ redraw_requested' = (fail = "none")
    /\ next_id' = Len(InitSteps) + 1
    /\ UNCHANGED <<clock, ev, consumed, frame, handled, touch, presses, held,
                   clock_buffer>>

\* window_event returns early: the controller has taken the event
ControllerEvent(e) ==
    /\ phase = "running"
    /\ branch(app.controller, e) = "controller"
    /\ app' = [app EXCEPT !.controller = process_events(@, e).controller]
    /\ ev' = e
    /\ consumed' = TRUE
    /\ touch' = [touch EXCEPT ![FlagOf(e.physical_key)] = touched(@, e)]
    /\ UNCHANGED <<phase, next_id, clock, frame, failed, redraw_requested>>

\* window_event calls event_loop.exit(); run_app then returns
ExitEvent(e) ==
    /\ phase = "running"
    /\ branch(app.controller, e) = "exit"
    /\ phase' = "exited"
    /\ ev' = e
    /\ consumed' = FALSE
    /\ UNCHANGED <<app, next_id, clock, frame, failed, touch,
                   redraw_requested>>

\* window_event calls add_cube
SpawnEvent(e) ==
    /\ phase = "running"
    /\ branch(app.controller, e) = "add_cube"
    /\ Len(app.cube_instances) < MaxCubes
    /\ \E position \in SpawnPositions :
          app' = add_cube(app, position, next_id)
    /\ next_id' = next_id + 1
    /\ ev' = e
    /\ consumed' = FALSE
    /\ UNCHANGED <<phase, clock, frame, failed, touch, redraw_requested>>

\* window_event handles RedrawRequested: update, then the frame, unless
\* the surface texture cannot be acquired
RedrawEvent(e) ==
    /\ phase = "running"
    /\ branch(app.controller, e) = "redraw"
    /\ \E d \in Deltas, ok \in BOOLEAN :
          /\ clock' = clock + d
          /\ IF update_valid(app)
             THEN /\ app' = update(app, clock')
                  /\ phase' = unwrap(ok)
                  /\ failed' = IF ok THEN "none" ELSE "get_current_texture"
                  /\ frame' = IF ok THEN render(app') ELSE <<>>
             ELSE /\ app' = app
                  /\ phase' = "aborted"
                  /\ failed' = "write_buffer"
                  /\ frame' = <<>>
    /\ ev' = e
    /\ consumed' = FALSE
    /\ touch' = [f \in Flags |->
                    IF touch[f] = "tapped" THEN "was tapped" ELSE "none"]
    /\ redraw_requested' = request_redraw(frame')
    /\ UNCHANGED next_id

\* window_event falls through to the last arm: nothing happens
IgnoredEvent(e) ==
    /\ phase = "running"
    /\ branch(app.controller, e) = "none"
    /\ ev' = e
    /\ consumed' = FALSE
    /\ UNCHANGED <<phase, app, next_id, clock, frame, failed, touch,
                   redraw_requested>>

\* App::window_event, for an event the loop delivers while it runs
window_event(e) ==
    /\ handled < MaxEvents
    /\ handled' = handled + 1
    /\ presses' = pressed(presses, e)
    /\ held' = hold(held, e)
    /\ UNCHANGED clock_buffer
    /\ \/ ControllerEvent(e)
       \/ ExitEvent(e)
       \/ SpawnEvent(e)
       \/ RedrawEvent(e)
       \/ IgnoredEvent(e)

Next ==
    \/ Resumed
    \/ \E e \in Events : window_event(e)

Spec == Init /\ [][Next]_vars

---------------------------------------------------------------------------
(* The event loop without an end, for what it does eventually.  handled    *)
(* counts the events modulo MaxEvents and the clock stops at 16 ms per     *)
(* event of a run of Spec, so that the states are finitely many.  Presses  *)
(* of direction keys are left to Spec: cubes that move in every frame are  *)
(* in a new place after every frame.                                       *)

EventsLive ==
    {KeyboardInput("Released", "KeyW", "Character", FALSE),
     KeyboardInput("Pressed", "Space", "Space", FALSE),
     KeyboardInput("Pressed", "Escape", "Escape", FALSE),
     OtherEvent("CloseRequested"), OtherEvent("RedrawRequested"),
     OtherEvent("Resized")}

window_event_live(e) ==
    /\ handled' = (handled + 1) % MaxEvents
    /\ presses' = pressed(presses, e)
    /\ held' = hold(held, e)
    /\ UNCHANGED clock_buffer
    /\ \/ ControllerEvent(e)
       \/ ExitEvent(e)
       \/ SpawnEvent(e)
       \/ RedrawEvent(e)
       \/ IgnoredEvent(e)
    /\ clock' <= 16 * MaxEvents

NextLive ==
    \/ Resumed
    \/ \E e \in EventsLive : window_event_live(e)

\* with ControlFlow::Wait the loop sleeps until there is an event, and a
\* redraw that was requested is one: the window system delivers it
PendingRedraw ==
    /\ redraw_requested
    /\ window_event_live(OtherEvent("RedrawRequested"))

\* when PendingRedraw can happen: a handler without a failure is always
\* possible, with no time passed since the last frame
RedrawPending == phase = "running" /\ redraw_requested

\* run_app calls resumed when the loop starts, and delivers a requested
\* redraw; a RedrawRequested nobody asked for may come or not.  The last
\* conjunct is WF_vars(PendingRedraw), with RedrawPending written for
\* ENABLED <<PendingRedraw>>_vars
SpecLive ==
    /\ Init /\ [][NextLive]_vars
    /\ WF_vars(Resumed)
    /\ ([]<>~RedrawPending \/ []<><<PendingRedraw>>_vars)

---------------------------------------------------------------------------
(* Controller::process_events on its own: every controller, every event. *)

Controllers ==
    {[velocity |-> v, is_up_pressed |-> u, is_down_pressed |-> d,
      is_left_pressed |-> l, is_right_pressed |-> r] :
        v \in {NumZero, Velocity}, u \in BOOLEAN, d \in BOOLEAN,
        l \in BOOLEAN, r \in BOOLEAN}

InitKeys ==
    /\ phase = "input"
    /\ \E c \in Controllers : app = [AppDefault EXCEPT !.controller = c]
    /\ ev \in AllEvents
    /\ next_id = 1
    /\ clock = 0
    /\ consumed = FALSE
    /\ frame = <<>>
    /\ failed = "none"
    /\ handled = 0
    /\ touch = [f \in Flags |-> "none"]
    /\ presses = [space |-> 0, direction |-> 0]
    /\ held = {}
    /\ redraw_requested = FALSE
    /\ clock_buffer = None

ProcessEvents ==
    /\ phase = "input"
    /\ phase' = "output"
    /\ app' = [app EXCEPT !.controller = process_events(@, ev).controller]
    /\ consumed' = process_events(app.controller, ev).handled
    /\ UNCHANGED <<next_id, clock, ev, frame, failed, handled, touch, presses,
                   held, redraw_requested, clock_buffer>>

SpecKeys == InitKeys /\ [][ProcessEvents]_vars

---------------------------------------------------------------------------
(* ClockBuffer (src/clock.rs) on its own: new, then updates.  ms and the   *)
(* deltas are f32; the deltas drawn are whole numbers, for which the sum   *)
(* of two f32 is the f32 nearest their exact sum.  clock is the exact sum  *)
(* of the deltas passed.                                                   *)

\* f32 + f32 on whole numbers
f32_add(x, y) ==
    LET sum == x + y
    IN  IF sum < 0 THEN 0 - as_f32(0 - sum) ELSE as_f32(sum)

\* ClockBuffer::new
ClockBufferNew == [ms |-> 0]

\* ClockBuffer::update
ClockBufferUpdate(c, delta) == [c EXCEPT !.ms = f32_add(@, delta)]

\* the deltas passed to update: a millisecond more or less, nothing, a
\* frame, and 2^24 ms, from where on f32 has no odd whole numbers
ClockDeltas == {0 - 1, 0, 1, 3, 16, 16777216}

UpdateCall(delta) == [kind |-> "ClockBuffer::update", delta |-> delta]

InitClock ==
    /\ phase = "clock"
    /\ app = AppDefault
    /\ next_id = 1
    /\ clock = 0
    /\ ev = NoEvent
    /\ consumed = FALSE
    /\ frame = <<>>
    /\ failed = "none"
    /\ handled = 0
    /\ touch = [f \in Flags |-> "none"]
    /\ presses = [space |-> 0, direction |-> 0]
    /\ held = {}
    /\ redraw_requested = FALSE
    /\ clock_buffer = None

ClockNew ==
    /\ phase = "clock"
    /\ clock_buffer = None
    /\ clock_buffer' = Some(ClockBufferNew)
    /\ UNCHANGED <<phase, app, next_id, clock, ev, consumed, frame, failed,
                   handled, touch, presses, held, redraw_requested>>

ClockUpdate ==
    /\ phase = "clock"
    /\ IsSome(clock_buffer)
    /\ handled < MaxUpdates
    /\ \E delta \in ClockDeltas :
          /\ clock_buffer' = Some(ClockBufferUpdate(unwrapped(clock_buffer), delta))
          /\ clock' = clock + delta
          /\ ev' = UpdateCall(delta)
    /\ handled' = handled + 1
    /\ UNCHANGED <<phase, app, next_id, consumed, frame, failed, touch,
                   presses, held, redraw_requested>>

NextClock == ClockNew \/ ClockUpdate

SpecClock == InitClock /\ [][NextClock]_vars

---------------------------------------------------------------------------
(* App::add_cube on its own: the three random numbers drawn, and the App   *)
(* it is called on.  A random f32 is k / 2^24; add_cube is applied where   *)
(* the three coordinates are whole sixteenths, the numbers of the model.   *)

\* the k of random numbers: 0, the least above 0, 0.125, 0.5, one that
\* gives 9.9375, and the greatest, 1 - 2^-24
Randoms == {0, 1, 2097152, 8388608, 16672358, 16777215}

\* App after resumed; with W down; with W down after a frame; with a second
\* cube
AddCubeApps ==
    LET base == resumed(AppDefault, "none", 0)
        down == [base EXCEPT !.controller.is_up_pressed = TRUE]
    IN  {base, down, update(down, 16),
         add_cube(base, random_position(<<0, 0, 0>>), Len(InitSteps) + 1)}

RandomDraws(draws) == [kind |-> "rand::random", draws |-> draws]

InitAddCube ==
    /\ phase = "add_cube"
    /\ app \in AddCubeApps
    /\ \E x \in Randoms, y \in Randoms, z \in Randoms :
          ev = RandomDraws(<<x, y, z>>)
    /\ next_id = Len(InitSteps) + 2
    /\ clock = 0
    /\ consumed = FALSE
    /\ frame = <<>>
    /\ failed = "none"
    /\ handled = 0
    /\ touch = [f \in Flags |-> "none"]
    /\ presses = [space |-> 0, direction |-> 0]
    /\ held = {}
    /\ redraw_requested = FALSE
    /\ clock_buffer = None

AddCube ==
    /\ phase = "add_cube"
    /\ \A i \in 1..3 : in_sixteenths(ev.draws[i])
    /\ app' = add_cube(app, random_position(ev.draws), next_id)
    /\ next_id' = next_id + 1
    /\ phase' = "added"
    /\ UNCHANGED <<clock, ev, consumed, frame, failed, handled, touch, presses,
                   held, redraw_requested, clock_buffer>>

SpecAddCube == InitAddCube /\ [][AddCube]_vars

---------------------------------------------------------------------------
(* load_cube (src/cube.rs) on its own.  What it reads is a file: whether   *)
(* tobj::load_obj can load it, the models in it, each with its indices and *)
(* the material_id tobj gives it (an index into the materials of the OBJ   *)
(* file's own material library, or None), the number of materials in       *)
(* cube.mtl, and whether the texture decodes.  0 is the first index.       *)

\* Option::unwrap_or
unwrap_or(o, default) == IF IsSome(o) THEN unwrapped(o) ELSE default

\* the mesh of a tobj::Model
ObjMeshes ==
    {[indices |-> i, material_id |-> m] :
        i \in {<<>>, <<0, 1, 2>>, <<0, 1, 2, 2, 3, 0>>},
        m \in {None, Some(0), Some(1)}}

RECURSIVE SeqsUpTo(_, _)
SeqsUpTo(S, n) ==
    IF n = 0 THEN {<<>>}
    ELSE LET shorter == SeqsUpTo(S, n - 1)
         IN  shorter \cup {Append(q, x) : q \in shorter, x \in S}

ObjFiles ==
    {[kind |-> "file", load_obj |-> o, models |-> ms, mtl |-> n, texture |-> t] :
        o \in BOOLEAN, ms \in SeqsUpTo(ObjMeshes, MaxModels), n \in 0..2,
        t \in BOOLEAN}

\* load_cube: "Err" when load_obj or the texture fails, "panic" when
\* cube.mtl has no first material, else the Cube; id numbers the bind group
load_cube(file, id) ==
    IF ~file.load_obj THEN [result |-> "Err"]
    ELSE IF file.mtl = 0 THEN [result |-> "panic"]
    ELSE IF ~file.texture THEN [result |-> "Err"]
    ELSE LET materials == <<[name |-> "materials[0].name", bind_group |-> id]>>
             meshes ==
                 [i \in 1..Len(file.models) |->
                     [num_elements |-> Len(file.models[i].indices),
                      material |-> unwrap_or(file.models[i].material_id, 0)]]
         IN  [result |-> "Ok",
              cube |-> [meshes |-> meshes, materials |-> materials]]

InitLoadCube ==
    /\ phase = "load_cube"
    /\ app = AppDefault
    /\ ev \in ObjFiles
    /\ next_id = 1
    /\ clock = 0
    /\ consumed = FALSE
    /\ frame = <<>>
    /\ failed = "none"
    /\ handled = 0
    /\ touch = [f \in Flags |-> "none"]
    /\ presses = [space |-> 0, direction |-> 0]
    /\ held = {}
    /\ redraw_requested = FALSE
    /\ clock_buffer = None

\* self.cube_model = Some(load_cube(..).unwrap())
LoadCube ==
    /\ phase = "load_cube"
    /\ LET loaded == load_cube(ev, next_id)
       IN  IF loaded.result = "Ok"
           THEN /\ app' = [app EXCEPT !.cube_model = Some(loaded.cube)]
                /\ phase' = "loaded"
                /\ failed' = failed
           ELSE /\ app' = app
                /\ phase' = "aborted"
                /\ failed' = "load_cube"
    /\ next_id' = next_id + 1
    /\ UNCHANGED <<clock, ev, consumed, frame, handled, touch, presses, held,
                   redraw_requested, clock_buffer>>

SpecLoadCube == InitLoadCube /\ [][LoadCube]_vars

---------------------------------------------------------------------------
(* Properties. *)

\* a step in which window_event handles an event
Dispatched == handled' = handled + 1

BoolInt(b) == IF b THEN 1 ELSE 0

C2_ProcessEvents ==
    [][(phase = "input" /\ phase' = "output") =>
        LET c == app.controller
            d == app'.controller
            key == ev.physical_key
            flag == CASE key \in {"KeyW", "ArrowUp"} -> "is_up_pressed"
                      [] key \in {"KeyA", "ArrowLeft"} -> "is_left_pressed"
                      [] key \in {"KeyS", "ArrowDown"} -> "is_down_pressed"
                      [] key \in {"KeyD", "ArrowRight"} -> "is_right_pressed"
                      [] OTHER -> "none"
        IN  IF ev.kind = "KeyboardInput" /\ flag # "none"
            THEN /\ consumed'
                 /\ d[flag] = (ev.state = "Pressed")
                 /\ \A f \in Flags \ {flag} : d[f] = c[f]
                 /\ d.velocity = c.velocity
            ELSE /\ ~consumed'
                 /\ d = c]_vars

\* an arrow key released: its flag cleared, another flag still set
C2_Witness ==
    /\ phase = "output"
    /\ ev.physical_key = "ArrowLeft"
    /\ ev.state = "Released"
    /\ consumed
    /\ ~app.controller.is_left_pressed
    /\ app.controller.is_up_pressed
    /\ app.controller.velocity = Velocity

SpacePressed(e) ==
    e.kind = "KeyboardInput" /\ e.state = "Pressed" /\ e.logical_key = "Space"

EscapePressed(e) ==
    e.kind = "KeyboardInput" /\ e.state = "Pressed" /\ e.logical_key = "Escape"

\* one instance has been appended and the earlier ones are as they were
AppendedOne ==
    /\ Len(app'.cube_instances) = Len(app.cube_instances) + 1
    /\ \A i \in 1..Len(app.cube_instances) :
          app'.cube_instances[i] = app.cube_instances[i]

\* C3 as stated: every Space press handled after init appends exactly one
\* instance and leaves the earlier instances alone; a Space release spawns
\* nothing
C3_EverySpacePressSpawns ==
    [][Dispatched =>
        /\ SpacePressed(ev') => AppendedOne
        /\ (ev'.kind = "KeyboardInput" /\ ev'.state = "Released"
                /\ ev'.logical_key = "Space") =>
              app'.cube_instances = app.cube_instances]_vars

\* C3: every Space press whose physical key is not a direction key appends
\* exactly one instance and leaves the earlier instances alone; a Space
\* press on a direction key, and a Space release, spawn nothing
C3_SpacePressSpawns ==
    [][Dispatched =>
        /\ (SpacePressed(ev') /\ ev'.physical_key \notin DirectionCodes) =>
              AppendedOne
        /\ (SpacePressed(ev') /\ ev'.physical_key \in DirectionCodes) =>
              app'.cube_instances = app.cube_instances
        /\ (ev'.kind = "KeyboardInput" /\ ev'.state = "Released"
                /\ ev'.logical_key = "Space") =>
              app'.cube_instances = app.cube_instances]_vars

\* a repeated Space press has spawned an instance after the cubes had moved
C3_Witness ==
    /\ SpacePressed(ev)
    /\ ev.repeat
    /\ Len(app.cube_instances) = 2
    /\ app.cube_instances[1].position # CubePositionInit
    /\ app.cube_instances[2].position \in SpawnPositions

\* C4 as stated: window_event requests exit on every CloseRequested and
\* every Escape press, and on no other event
C4_ExitOnEveryEscapePress ==
    [][Dispatched =>
        ((phase' = "exited") <=>
            (ev'.kind = "CloseRequested" \/ EscapePressed(ev')))]_vars

\* C4: window_event requests exit on every CloseRequested and on every
\* Escape press whose physical key is not a direction key, and on no other
\* event
C4_ExitRequested ==
    [][Dispatched =>
        ((phase' = "exited") <=>
            \/ ev'.kind = "CloseRequested"
            \/ EscapePressed(ev') /\ ev'.physical_key \notin DirectionCodes)]_vars

\* Escape has ended a run in which a frame was drawn
C4_Witness ==
    /\ phase = "exited"
    /\ EscapePressed(ev)
    /\ frame # <<>>

\* C5 as stated: a handled RedrawRequested clears the screen, draws the
\* background quad, draws the instanced cube mesh, draws the text and
\* presents, in this order, skipping nothing
C5_FrameSteps ==
    (ev.kind = "RedrawRequested" /\ phase = "running") =>
        steps(frame)
            = <<"clear", "draw background", "draw cube", "draw text", "present">>

InstanceBuffer == unwrapped(app.cube_instance_buffer)

\* C6: after every update and every add_cube the instance buffer holds
\* exactly one raw matrix per instance, the i-th being to_raw of the i-th
\* instance, and no write of update exceeds the buffer
C6_InstanceBufferCurrent ==
    /\ failed # "write_buffer"
    /\ phase = "running" => IsSome(app.cube_instance_buffer)
    /\ IsSome(app.cube_instance_buffer) =>
          /\ Len(InstanceBuffer.data) = Len(app.cube_instances)
          /\ \A i \in 1..Len(app.cube_instances) :
                InstanceBuffer.data[i] = to_raw(app.cube_instances[i])

\* a frame has been drawn after a spawned cube was moved
C6_Witness ==
    /\ ev.kind = "RedrawRequested"
    /\ frame # <<>>
    /\ Len(app.cube_instances) = 2
    /\ app.cube_instances[2].position \notin SpawnPositions
    /\ InstanceBuffer.data[2] = to_raw(app.cube_instances[2])

\* C7: the flags change only in keyboard events; the instances there are
\* change only in a RedrawRequested, which leaves the controller alone and
\* moves them by what the flags of that moment give; the flag of a key
\* pressed and released since the last redraw is clear, and with no other
\* flag set nothing moves
C7_MovementOnlyInRedraw ==
    [][Dispatched =>
        LET old == app.cube_instances
            new == app'.cube_instances
            c == app.controller
        IN  /\ app'.controller # c => ev'.kind = "KeyboardInput"
            /\ ev'.kind # "RedrawRequested" =>
                  \A i \in 1..Len(old) : new[i] = old[i]
            /\ ev'.kind = "RedrawRequested" =>
                  /\ app'.controller = c
                  /\ \A i \in 1..Len(old) :
                        new[i].position
                            = VecAdd(old[i].position, move_vector(c))
                  /\ \A f \in Flags : touch[f] = "tapped" => ~c[f]
                  /\ (\A f \in Flags : touch[f] = "tapped" \/ ~c[f]) =>
                        new = old]_vars

\* W was pressed and released, then a frame was drawn: nothing has moved
C7_Witness ==
    /\ ev.kind = "RedrawRequested"
    /\ frame # <<>>
    /\ touch["is_up_pressed"] = "was tapped"
    /\ Len(app.cube_instances) = 2
    /\ app.cube_instances[1].position = CubePositionInit
    /\ app.cube_instances[2].position \in SpawnPositions

\* C8: once resumed has built the camera and its buffer, no window event
\* changes a field of the camera or the contents of the camera buffer
C8_CameraNeverMutated ==
    [][phase = "running" =>
        /\ app.camera = Some(CameraInit)
        /\ app'.camera = app.camera
        /\ app'.camera_buffer = app.camera_buffer]_vars

\* frames were drawn and a cube spawned under the camera resumed built
C8_Witness ==
    /\ phase = "running"
    /\ frame # <<>>
    /\ Len(app.cube_instances) = 2
    /\ app.cube_instances[1].position # CubePositionInit
    /\ app.camera = Some(CameraInit)
    /\ unwrapped(app.camera_buffer).data = [view_proj_of |-> CameraInit]

\* what an Option field holds, up to changes made in place: a buffer is the
\* buffer it was while its contents change, a timer the timer it was
Held(a, f) ==
    IF a[f] = None THEN None
    ELSE CASE f = "cube_instance_buffer" -> Some(unwrapped(a[f]).id)
           [] f = "timer" ->
                Some(<<unwrapped(a[f]).start, unwrapped(a[f]).timer_buffer.id>>)
           [] OTHER -> a[f]

\* the Option fields no statement assigns
NeverSet == {"cube_bind_group", "cube_vertex_buf", "cube_index_buf"}

\* C9 as stated: resumed sets every Option field, and window_event, update
\* and add_cube assign none again
C9_EveryOptionSetOnce ==
    [][/\ (phase = "created" /\ phase' = "running") =>
              \A f \in OptionFields : IsSome(app'[f])
       /\ phase = "running" =>
              \A f \in OptionFields : Held(app', f) = Held(app, f)]_vars

\* C9: resumed sets every Option field but cube_bind_group, cube_vertex_buf
\* and cube_index_buf, which stay None; window_event and update assign no
\* Option field, and add_cube assigns cube_instance_buffer, a new buffer,
\* and no other
C9_OptionFieldsAssigned ==
    [][/\ (phase = "created" /\ phase' = "running") =>
              /\ \A f \in OptionFields \ NeverSet : IsSome(app'[f])
              /\ \A f \in NeverSet : app'[f] = None
       /\ phase = "running" =>
              /\ \A f \in OptionFields \ {"cube_instance_buffer"} :
                    Held(app', f) = Held(app, f)
              /\ (Held(app', "cube_instance_buffer")
                      # Held(app, "cube_instance_buffer"))
                    <=> (Dispatched /\ SpacePressed(ev')
                            /\ ev'.physical_key \notin DirectionCodes)]_vars

\* a cube was spawned and a frame drawn: the instance buffer is a later one
\* than the buffer of resumed
C9_Witness ==
    /\ phase = "running"
    /\ frame # <<>>
    /\ Len(app.cube_instances) = 2
    /\ InstanceBuffer.id > Len(InitSteps)
    /\ unwrapped(app.timer).elapsed > 0

\* C10: when a fallible call fails the process aborts: the handler stops at
\* the call (resumed assigns nothing after it, a redraw renders nothing),
\* and no handler runs in a process in which a call has failed
C10_FailureAborts ==
    [][/\ failed = "none"
       /\ phase # "aborted"
       /\ failed' # "none" =>
             /\ phase' = "aborted"
             /\ failed' \in InitFallible =>
                   /\ app'.cube_instance_buffer = None
                   /\ app'.cube_instances = <<>>
                   /\ app'.cube_model = None
             /\ failed' = "get_current_texture" => frame' = <<>>]_vars

\* load_cube has failed in resumed, after the pipelines were built
C10_Witness ==
    /\ phase = "aborted"
    /\ failed = "load_cube"
    /\ IsSome(app.cube_pipeline)
    /\ app.cube_model = None
    /\ handled = 0

\* the squared length of a quaternion <<s, x, y, z>>
quaternion_magnitude2(q) ==
    NumAdd(NumAdd(NumMul(q[1], q[1]), NumMul(q[2], q[2])),
           NumAdd(NumMul(q[3], q[3]), NumMul(q[4], q[4])))

\* C12 as stated: in every reachable state the rotation of every instance,
\* whether resumed or add_cube made it, is a rotation quaternion: its
\* length is 1
C12_UnitRotations ==
    \A i \in 1..Len(app.cube_instances) :
        quaternion_magnitude2(app.cube_instances[i].rotation) = NumOne

\* resumed has completed and the process has not panicked
Initialised == phase \in {"running", "exited"}

\* no instance is removed or moved to another place in the list: every
\* instance is where it was, displaced by what a redraw adds to all alike
InstancesKept ==
    LET old == app.cube_instances
        new == app'.cube_instances
        v == IF ev'.kind = "RedrawRequested" /\ handled' # handled
             THEN move_vector(app.controller) ELSE VecZero
    IN  /\ Len(new) >= Len(old)
        /\ \A i \in 1..Len(old) :
              new[i] = [old[i] EXCEPT !.position = VecAdd(@, v)]

\* C13 as stated: after init no event removes or reorders an instance, and
\* the number of instances is at least 1 and is 1 plus the number of Space
\* presses handled since init
C13_OnePerSpacePress ==
    /\ [](Initialised =>
            /\ Len(app.cube_instances) >= 1
            /\ Len(app.cube_instances) = 1 + presses.space)
    /\ [][phase = "running" => InstancesKept]_vars

\* C13: after init no event removes or reorders an instance, and the number
\* of instances is at least 1 and is 1 plus the number of Space presses
\* handled since init whose physical key is not a direction key
C13_InstancesKept ==
    /\ [](Initialised =>
            /\ Len(app.cube_instances) >= 1
            /\ Len(app.cube_instances)
                  = 1 + presses.space - presses.direction)
    /\ [][phase = "running" => InstancesKept]_vars

\* a Space press on the W key has set the cubes moving, another Space press
\* has spawned a cube and a frame has moved both
C13_Witness ==
    /\ phase = "running"
    /\ ev.kind = "RedrawRequested"
    /\ presses = [space |-> 2, direction |-> 1]
    /\ Len(app.cube_instances) = 2
    /\ app.cube_instances[1].position # CubePositionInit
    /\ app.cube_instances[2].position \notin SpawnPositions

\* C14: once resumed has completed, every Option field that update, add_cube
\* or the redraw handler unwraps holds a value, and no event handled after
\* init leaves one of them None
C14_UnwrapsPopulated ==
    /\ [](phase = "running" => \A f \in Unwraps : IsSome(app[f]))
    /\ [][phase = "running" => \A f \in Unwraps : IsSome(app'[f])]_vars

\* a cube was spawned and a frame drawn: what the handlers unwrap is there,
\* and the fields that were never set are not among it
C14_Witness ==
    /\ phase = "running"
    /\ ev.kind = "RedrawRequested"
    /\ frame # <<>>
    /\ Len(app.cube_instances) = 2
    /\ \A f \in Unwraps : IsSome(app[f])
    /\ \A f \in NeverSet : app[f] = None /\ f \notin Unwraps

\* the draw calls of a frame that run under the cube pipeline
CubeDraws(cmds) ==
    {i \in 1..Len(cmds) :
        cmds[i][1] = "draw_indexed" /\ pipeline_at(cmds, i) = "cube"}

\* C15: the frame of a RedrawRequested draws the cube mesh in exactly one
\* draw call, over the instances 0..len(cube_instances) of the instance
\* buffer bound for it, with the length of that moment: each instance once,
\* a cube spawned before the frame included
C15_OneCopyPerInstance ==
    (ev.kind = "RedrawRequested" /\ phase = "running") =>
        /\ Cardinality(CubeDraws(frame)) = 1
        /\ \A i \in CubeDraws(frame) :
              /\ frame[i] = <<"draw_indexed", "mesh", Len(app.cube_instances)>>
              /\ \E j \in 1..(i - 1) :
                    frame[j] = <<"set_vertex_buffer", "cube_instance", 1>>
        /\ Len(InstanceBuffer.data) = Len(app.cube_instances)

\* Space was pressed and the very next event was a redraw: two cubes drawn
C15_Witness ==
    /\ ev.kind = "RedrawRequested"
    /\ phase = "running"
    /\ handled = 2
    /\ Len(app.cube_instances) = 2
    /\ \E i \in 1..Len(frame) : frame[i] = <<"draw_indexed", "mesh", 2>>

C17_MsIsSumOfDeltas ==
    /\ [](IsSome(clock_buffer) => unwrapped(clock_buffer).ms = clock)
    /\ [][/\ clock_buffer = None => clock_buffer' = Some([ms |-> 0])
          /\ ev'.kind = "ClockBuffer::update" /\ handled' # handled =>
                LET ms == unwrapped(clock_buffer).ms
                    after == unwrapped(clock_buffer').ms
                IN  /\ after = ms + ev'.delta
                    /\ ev'.delta >= 0 => after >= ms]_vars

\* C18: a flag is the state of the last event on either of its two keys: an
\* event on a direction key sets the flag of the key to whether it is a
\* press, whichever keys are down, and no other event changes a flag; a set
\* flag has a key of its pair down, but a key that is down need not have
\* its flag set, and a frame with no flag set moves nothing
C18_LastEventOfPair ==
    /\ [](\A f \in Flags :
            app.controller[f] => \E k \in held : FlagOf(k) = f)
    /\ [][Dispatched =>
            LET c == app.controller
                d == app'.controller
                key == IF ev'.kind = "KeyboardInput"
                       THEN ev'.physical_key ELSE ""
            IN  /\ \A f \in Flags :
                      d[f] = IF FlagOf(key) = f THEN ev'.state = "Pressed"
                             ELSE c[f]
                /\ (ev'.kind = "RedrawRequested" /\ \A f \in Flags : ~c[f]) =>
                      app'.cube_instances = app.cube_instances]_vars

\* W pressed, ArrowUp pressed, ArrowUp released, then a frame: W is down,
\* the flag is clear and the cube is where resumed put it
C18_Witness ==
    /\ ev.kind = "RedrawRequested"
    /\ phase = "running"
    /\ held = {"KeyW"}
    /\ handled = 4
    /\ touch["is_up_pressed"] = "was tapped"
    /\ ~app.controller.is_up_pressed
    /\ app.cube_instances = <<Instance(CubePositionInit, QuaternionZero)>>

\* C19: a keyboard event whose physical key is a direction key is taken by
\* the controller whatever its logical key is: window_event returns after
\* process_events, so it requests no exit, spawns no cube, draws no frame
\* and changes nothing but the flag of the key
C19_ControllerFirst ==
    [][(Dispatched /\ ev'.kind = "KeyboardInput"
            /\ ev'.physical_key \in DirectionCodes) =>
        /\ consumed'
        /\ branch(app.controller, ev') = "controller"
        /\ phase' = phase
        /\ app' = [app EXCEPT !.controller[FlagOf(ev'.physical_key)]
                                  = (ev'.state = "Pressed")]
        /\ next_id' = next_id
        /\ frame' = frame
        /\ clock' = clock
        /\ redraw_requested' = redraw_requested]_vars

\* a press of the W key with logical key Escape: the program runs on, with
\* the up flag set
C19_Witness ==
    /\ ev = KeyboardInput("Pressed", "KeyW", "Escape", FALSE)
    /\ consumed
    /\ phase = "running"
    /\ app.controller.is_up_pressed
    /\ Len(app.cube_instances) = 1

\* a RedrawRequested has been handled and its frame presented
Rendered ==
    /\ handled' # handled
    /\ ev'.kind = "RedrawRequested"
    /\ frame' # <<>>
    /\ phase' = "running"

\* C20: resumed leaves a redraw requested, and so does every RedrawRequested
\* that is handled without a failure; a program that neither exits nor
\* fails renders a frame again and again
C20_RedrawLoop ==
    /\ [](phase = "running" => redraw_requested)
    /\ [][Rendered => request_redraw(frame') /\ redraw_requested']_vars
    /\ (<>(phase \in {"exited", "aborted"}) \/ []<><<Rendered>>_vars)

\* a frame has been rendered, then a cube spawned, and a redraw is requested
C20_Witness ==
    /\ phase = "running"
    /\ redraw_requested
    /\ frame # <<>>
    /\ clock = 16 * MaxEvents
    /\ SpacePressed(ev)
    /\ Len(app.cube_instances) = MaxCubes

\* C21: cube_position is None until resumed sets it to (-1, -1, -1); update,
\* add_cube and every window event leave it as it is, so it stays there
\* while the first instance moves with the direction keys
C21_CubePositionFixed ==
    /\ [](app.cube_position \in {None, Some(CubePositionInit)})
    /\ [](phase = "running" => app.cube_position = Some(CubePositionInit))
    /\ [][phase # "created" => app'.cube_position = app.cube_position]_vars

\* frames have moved the first instance away from cube_position, and a cube
\* has been spawned
C21_Witness ==
    /\ phase = "running"
    /\ ev.kind = "RedrawRequested"
    /\ Len(app.cube_instances) = 2
    /\ app.cube_position = Some(CubePositionInit)
    /\ app.cube_instances[1].position
          = VecAdd(CubePositionInit, Vec3(NumZero, NumZero, NumOne))

\* C22: each coordinate add_cube draws is at least 0 and less than 10 (in
\* units of 2^-24: less than 10 * 2^24), and the instance it appends has
\* the three coordinates drawn and the zero quaternion, whatever instances
\* there are and whatever flags are set
C22_SpawnedInRange ==
    /\ [](phase = "add_cube" =>
            \A i \in 1..3 :
                /\ random_coordinate(ev.draws[i]) >= 0
                /\ random_coordinate(ev.draws[i]) < 167772160)
    /\ [][(phase = "add_cube" /\ phase' = "added") =>
            LET new == app'.cube_instances
                n == Len(new)
            IN  /\ n = Len(app.cube_instances) + 1
                /\ new[n].rotation = QuaternionZero
                /\ \A i \in 1..3 :
                      /\ new[n].position[i][2] = 0
                      /\ new[n].position[i][1] >= 0
                      /\ new[n].position[i][1] < 160
                      /\ new[n].position[i][1] * 1048576
                            = random_coordinate(ev.draws[i])]_vars

\* a cube spawned at (9.9375, 5, 1.25) while W is down and the first cube
\* has moved
C22_Witness ==
    /\ phase = "added"
    /\ app.controller.is_up_pressed
    /\ Len(app.cube_instances) = 2
    /\ app.cube_instances[1].position # CubePositionInit
    /\ app.cube_instances[2]
          = Instance(Vec3(Num(159, 0), Num(80, 0), Num(20, 0)), QuaternionZero)

\* C23 as stated: a Cube that load_cube returns has exactly one material,
\* every mesh has for num_elements the number of its indices and for
\* material the material_id of the OBJ mesh, or 0 when there is none, and
\* that is an index of an element of materials
C23_CubeWellFormed ==
    phase = "loaded" =>
        LET cube == unwrapped(app.cube_model)
        IN  /\ Len(cube.materials) = 1
            /\ Len(cube.meshes) = Len(ev.models)
            /\ \A i \in 1..Len(cube.meshes) :
                  /\ cube.meshes[i].num_elements = Len(ev.models[i].indices)
                  /\ cube.meshes[i].material
                        = unwrap_or(ev.models[i].material_id, 0)
                  /\ cube.meshes[i].material \in 0..(Len(cube.materials) - 1)

===========================================================================
